---- MODULE Spec2Model ----
(***************************************************************************)
(* Model of rusend (src/src/main.rs): a one-shot command line client that  *)
(* keeps an AppConfig in a credentials file and forwards each command to   *)
(* the remote email service.                                               *)
(*                                                                         *)
(* Text is modelled as sequences of one-character strings, so that         *)
(* serialising, trimming, parsing and concatenating are computed and not   *)
(* assumed.  One action models one invocation of the program (one          *)
(* subcommand, run from Cli::parse to process exit); what the invocation   *)
(* did is left in the variable inv.                                        *)
(***************************************************************************)
EXTENDS Integers, Sequences, FiniteSets, TLC

VARIABLES
    file,   \* the credentials file: absent, or its content
    inv     \* what the last invocation of the program was given and did

vars == <<file, inv>>

----------------------------------------------------------------------------
(* Characters and strings                                                  *)

QUOTE == "\""
BSL   == "\\"
SP    == " "
NL    == "\n"
TAB   == "\t"
CR    == "\r"
FF    == "\f"

\* Option<String>
None    == [some |-> FALSE, v |-> <<>>]
Some(x) == [some |-> TRUE, v |-> x]

\* a slip: the second option is taken first
OptOrSecondFirst(a, b) == IF b.some THEN b ELSE a

\* Option::or
OptOr(a, b) == IF a.some THEN a ELSE b

\* The white space str::trim removes and serde_json skips, as far as the
\* alphabet of the model has it.
WhiteSpace == {SP, NL, TAB, CR}

RECURSIVE TrimStart(_)
TrimStart(s) ==
    IF s # <<>> /\ Head(s) \in WhiteSpace THEN TrimStart(Tail(s)) ELSE s

RECURSIVE TrimEnd(_)
TrimEnd(s) ==
    IF s # <<>> /\ s[Len(s)] \in WhiteSpace
    THEN TrimEnd(SubSeq(s, 1, Len(s) - 1))
    ELSE s

\* str::trim
Trim(s) == TrimEnd(TrimStart(s))

----------------------------------------------------------------------------
(* AppConfig and its JSON form                                             *)

AppConfig(k, f, t) == [api_key |-> k, default_from |-> f, default_to |-> t]

\* #[derive(Default)]: empty api_key, no defaults
DefaultConfig == AppConfig(<<>>, None, None)

K_api_key      == <<"a", "p", "i", "_", "k", "e", "y">>
K_default_from == <<"d", "e", "f", "a", "u", "l", "t", "_", "f", "r", "o", "m">>
K_default_to   == <<"d", "e", "f", "a", "u", "l", "t", "_", "t", "o">>
L_null         == <<"n", "u", "l", "l">>
L_true         == <<"t", "r", "u", "e">>
L_false        == <<"f", "a", "l", "s", "e">>

\* a slip: the backslash is written as it is
EscapeCharBareBackslash(c) ==
    CASE c = QUOTE -> <<BSL, QUOTE>>
      [] c = NL    -> <<BSL, "n">>
      [] c = TAB   -> <<BSL, "t">>
      [] c = CR    -> <<BSL, "r">>
      [] c = FF    -> <<BSL, "f">>
      [] OTHER     -> <<c>>

\* serde_json's escape of one character inside a string literal
EscapeChar(c) ==
    CASE c = QUOTE -> <<BSL, QUOTE>>
      [] c = BSL   -> <<BSL, BSL>>
      [] c = NL    -> <<BSL, "n">>
      [] c = TAB   -> <<BSL, "t">>
      [] c = CR    -> <<BSL, "r">>
      [] c = FF    -> <<BSL, "f">>
      [] OTHER     -> <<c>>

RECURSIVE Escape(_)
Escape(s) == IF s = <<>> THEN <<>> ELSE EscapeChar(Head(s)) \o Escape(Tail(s))

\* a JSON string literal
JsonString(s) == <<QUOTE>> \o Escape(s) \o <<QUOTE>>

\* Option<String> serialises as null or as a string literal
JsonOption(o) == IF o.some THEN JsonString(o.v) ELSE L_null

\* serde_json::to_string_pretty(&AppConfig): two-space indent, one field
\* per line, fields in declaration order
to_string_pretty(cfg) ==
    <<"{", NL, SP, SP>> \o JsonString(K_api_key) \o <<":", SP>>
        \o JsonString(cfg.api_key)
    \o <<",", NL, SP, SP>> \o JsonString(K_default_from) \o <<":", SP>>
        \o JsonOption(cfg.default_from)
    \o <<",", NL, SP, SP>> \o JsonString(K_default_to) \o <<":", SP>>
        \o JsonOption(cfg.default_to)
    \o <<NL, "}">>

(* The JSON reader.  Values: strings, null, true, false, objects, arrays.  *)
(* Numbers are left out: no text of the model holds a digit.               *)

JNull    == [t |-> "null"]
JBool    == [t |-> "bool"]
JStr(s)  == [t |-> "str", s |-> s]
JObj(m)  == [t |-> "obj", m |-> m]
JArr(a)  == [t |-> "arr", a |-> a]

PErr         == [ok |-> FALSE, v |-> JNull, next |-> 0]
POk(v, next) == [ok |-> TRUE, v |-> v, next |-> next]

RECURSIVE SkipWs(_, _)
SkipWs(s, i) ==
    IF i <= Len(s) /\ s[i] \in WhiteSpace THEN SkipWs(s, i + 1) ELSE i

\* the characters that may follow a backslash (\b and \uXXXX are outside
\* the alphabet of the model)
Escapable == {QUOTE, BSL, "/", "n", "t", "r", "f"}

UnescapeChar(c) ==
    CASE c = "n" -> NL
      [] c = "t" -> TAB
      [] c = "r" -> CR
      [] c = "f" -> FF
      [] OTHER   -> c

\* control characters may not stand unescaped inside a string literal
Control == {NL, TAB, CR, FF}

\* s[i] is the character after the opening quote
RECURSIVE ParseStr(_, _, _)
ParseStr(s, i, acc) ==
    IF i > Len(s) THEN PErr
    ELSE IF s[i] = QUOTE THEN POk(acc, i + 1)
    ELSE IF s[i] = BSL THEN
        IF i + 1 > Len(s) \/ s[i + 1] \notin Escapable THEN PErr
        ELSE ParseStr(s, i + 2, Append(acc, UnescapeChar(s[i + 1])))
    ELSE IF s[i] \in Control THEN PErr
    ELSE ParseStr(s, i + 1, Append(acc, s[i]))

ParseLit(s, i, lit, v) ==
    IF i + Len(lit) - 1 <= Len(s) /\ SubSeq(s, i, i + Len(lit) - 1) = lit
    THEN POk(v, i + Len(lit))
    ELSE PErr

RECURSIVE ParseValue(_, _)
RECURSIVE ParseMembers(_, _, _, _)
RECURSIVE ParseElems(_, _, _, _)

\* a string literal read as a value
StrValue(r) == IF r.ok THEN POk(JStr(r.v), r.next) ELSE PErr

\* the value that starts at s[i], white space skipped
ValueAt(s, i) ==
    IF i > Len(s) THEN PErr
    ELSE CASE s[i] = QUOTE -> StrValue(ParseStr(s, i + 1, <<>>))
           [] s[i] = "n" -> ParseLit(s, i, L_null, JNull)
           [] s[i] = "t" -> ParseLit(s, i, L_true, JBool)
           [] s[i] = "f" -> ParseLit(s, i, L_false, JBool)
           [] s[i] = "{" -> ParseMembers(s, i + 1, <<>>, TRUE)
           [] s[i] = "[" -> ParseElems(s, i + 1, <<>>, TRUE)
           [] OTHER -> PErr

ParseValue(s, i0) == ValueAt(s, SkipWs(s, i0))

\* after a member: a comma and more members, or the closing brace
MemberEnd(s, e, all) ==
    IF e > Len(s) THEN PErr
    ELSE IF s[e] = "," THEN ParseMembers(s, e + 1, all, FALSE)
    ELSE IF s[e] = "}" THEN POk(JObj(all), e + 1)
    ELSE PErr

MemberValue(s, key, val, acc) ==
    IF ~val.ok THEN PErr
    ELSE MemberEnd(s, SkipWs(s, val.next), Append(acc, [k |-> key, v |-> val.v]))

MemberColon(s, key, c, acc) ==
    IF c > Len(s) \/ s[c] # ":" THEN PErr
    ELSE MemberValue(s, key, ParseValue(s, c + 1), acc)

MemberKey(s, k, acc) ==
    IF ~k.ok THEN PErr ELSE MemberColon(s, k.v, SkipWs(s, k.next), acc)

MembersAt(s, i, acc, first) ==
    IF i > Len(s) THEN PErr
    ELSE IF s[i] = "}" THEN (IF first THEN POk(JObj(acc), i + 1) ELSE PErr)
    ELSE IF s[i] # QUOTE THEN PErr
    ELSE MemberKey(s, ParseStr(s, i + 1, <<>>), acc)

\* the members of an object; s[i0] follows "{" or a ",", first tells which
ParseMembers(s, i0, acc, first) == MembersAt(s, SkipWs(s, i0), acc, first)

\* after an element: a comma and more elements, or the closing bracket
ElemEnd(s, e, all) ==
    IF e > Len(s) THEN PErr
    ELSE IF s[e] = "," THEN ParseElems(s, e + 1, all, FALSE)
    ELSE IF s[e] = "]" THEN POk(JArr(all), e + 1)
    ELSE PErr

ElemValue(s, val, acc) ==
    IF ~val.ok THEN PErr
    ELSE ElemEnd(s, SkipWs(s, val.next), Append(acc, val.v))

ElemsAt(s, i, acc, first) ==
    IF i > Len(s) THEN PErr
    ELSE IF s[i] = "]" THEN (IF first THEN POk(JArr(acc), i + 1) ELSE PErr)
    ELSE ElemValue(s, ValueAt(s, i), acc)

\* the elements of an array; s[i0] follows "[" or a ",", first tells which
ParseElems(s, i0, acc, first) == ElemsAt(s, SkipWs(s, i0), acc, first)

\* the value is all of the text but for white space
WholeText(s, r) == IF r.ok /\ SkipWs(s, r.next) > Len(s) THEN r ELSE PErr

\* one whole JSON document: a value, then nothing but white space
ParseDocument(s) == WholeText(s, ParseValue(s, 1))

Ok(v)  == [ok |-> TRUE, v |-> v]
Err(e) == [ok |-> FALSE, e |-> e]

\* Deserialize for String and for Option<String>
AsString(j) == IF j.t = "str" THEN Ok(j.s) ELSE Err("invalid type")
AsOption(j) ==
    IF j.t = "null" THEN Ok(None)
    ELSE IF j.t = "str" THEN Ok(Some(j.s))
    ELSE Err("invalid type")

\* the values of the members of m whose key is k
ValuesOf(m, k) == SelectSeq(m, LAMBDA e : e.k = k)

\* #[derive(Deserialize)] for AppConfig, from a map: a field given twice is
\* an error, an unknown key is skipped, a missing Option field is None and a
\* missing api_key is an error
ConfigFromMap(m) ==
    LET ks == ValuesOf(m, K_api_key)
        fs == ValuesOf(m, K_default_from)
        ts == ValuesOf(m, K_default_to)
        k  == IF Len(ks) = 1 THEN AsString(ks[1].v) ELSE Err("api_key")
        f  == IF Len(fs) = 0 THEN Ok(None)
              ELSE IF Len(fs) = 1 THEN AsOption(fs[1].v) ELSE Err("duplicate")
        t  == IF Len(ts) = 0 THEN Ok(None)
              ELSE IF Len(ts) = 1 THEN AsOption(ts[1].v) ELSE Err("duplicate")
    IN
    IF k.ok /\ f.ok /\ t.ok THEN Ok(AppConfig(k.v, f.v, t.v)) ELSE Err("json")

\* ... and from a sequence: exactly the three fields, in declaration order
ConfigFromSeq(a) ==
    IF Len(a) # 3 THEN Err("json")
    ELSE
        LET k == AsString(a[1])
            f == AsOption(a[2])
            t == AsOption(a[3])
        IN
        IF k.ok /\ f.ok /\ t.ok THEN Ok(AppConfig(k.v, f.v, t.v)) ELSE Err("json")

\* a parsed document as an AppConfig
ConfigFromDocument(r) ==
    IF ~r.ok THEN Err("json")
    ELSE IF r.v.t = "obj" THEN ConfigFromMap(r.v.m)
    ELSE IF r.v.t = "arr" THEN ConfigFromSeq(r.v.a)
    ELSE Err("json")

\* serde_json::from_str::<AppConfig>
from_str_AppConfig(s) == ConfigFromDocument(ParseDocument(s))

----------------------------------------------------------------------------
(* The credentials file                                                    *)

Absent        == [exists |-> FALSE, content |-> <<>>]
Present(text) == [exists |-> TRUE, content |-> text]

\* What the file system answers to one load: credentials_path() fails
\* ("no_dir": no project directory, or create_dir_all fails), or
\* fs::read_to_string fails ("unreadable": permissions, invalid UTF-8).
LoadIo == {"ok", "no_dir", "unreadable"}

\* ... and to one save: credentials_path() fails, or fs::write fails either
\* before it touches the file ("denied") or after it has truncated it
\* ("truncated").
SaveIo == {"ok", "no_dir", "denied", "truncated"}

\* a slip: the content is taken as a legacy key before JSON is tried
ClassifyLegacyFirst(content, cfg) ==
    IF content # <<>> THEN Ok(AppConfig(content, None, None))
    ELSE IF cfg.ok THEN Ok(cfg.v)
    ELSE Ok(DefaultConfig)

\* load_config, from the JSON attempt on: content is the trimmed text and
\* cfg what serde_json made of it
Classify(content, cfg) ==
    IF cfg.ok THEN Ok(cfg.v)
    ELSE IF content # <<>> THEN Ok(AppConfig(content, None, None))
    ELSE Ok(DefaultConfig)

\* load_config, once the file is read
LoadContent(content) == Classify(content, from_str_AppConfig(content))

\* load_config
load_config(f, io) ==
    IF io = "no_dir" THEN Err("create config dir")
    ELSE IF ~f.exists THEN Ok(DefaultConfig)
    ELSE IF io = "unreadable" THEN Err("read config file")
    ELSE LoadContent(Trim(f.content))

\* save_config: the outcome, and the file it leaves
save_config(f, cfg, io) ==
    IF io = "no_dir" THEN [ok |-> FALSE, e |-> "create config dir", file |-> f]
    ELSE IF io = "denied" THEN [ok |-> FALSE, e |-> "write config file", file |-> f]
    ELSE IF io = "truncated"
        THEN [ok |-> FALSE, e |-> "write config file", file |-> Present(<<>>)]
    ELSE [ok |-> TRUE, e |-> "", file |-> Present(to_string_pretty(cfg))]

----------------------------------------------------------------------------
(* Standard input                                                          *)

\* the line read_line returns: up to and including the first newline
RECURSIVE FirstLine(_)
FirstLine(s) ==
    IF s = <<>> THEN <<>>
    ELSE IF Head(s) = NL THEN <<NL>>
    ELSE <<Head(s)>> \o FirstLine(Tail(s))

\* rpassword::read_password: one line of standard input, trimmed
read_password(stdin) ==
    IF stdin.ok THEN Ok(Trim(FirstLine(stdin.v))) ELSE Err("stdin")

\* io::stdin().read_to_string: all of standard input, as it is
read_to_string_stdin(stdin) == IF stdin.ok THEN Ok(stdin.v) ELSE Err("stdin")

----------------------------------------------------------------------------
(* What an invocation did, in order                                        *)

LoadStep(res)  == [kind |-> "load_config", ok |-> res.ok, res |-> res]
StdinStep(res) == [kind |-> "stdin", ok |-> res.ok, res |-> res]
SaveStep(cfg, res) == [kind |-> "save_config", ok |-> res.ok, cfg |-> cfg]
ReadFileStep(ok)   == [kind |-> "read_file", ok |-> ok]
ParseStep(ok)      == [kind |-> "parse_json", ok |-> ok]
PrintStep(what)    == [kind |-> "print", ok |-> TRUE, what |-> what]
\* a request to the remote service: Resend::new(key), then the operation
RemoteStep(op, key, arg, resp) ==
    [kind |-> "remote", ok |-> resp.ok, op |-> op, key |-> key, arg |-> arg,
     resp |-> resp]

\* main returns Ok(()): exit code 0
Done(steps, f) == [steps |-> steps, exit |-> "ok", err |-> "", file |-> f]
\* main returns Err: the message goes to the error stream, exit code 1
Fail(steps, e, f) == [steps |-> steps, exit |-> "fail", err |-> e, file |-> f]

StepsOf(steps, kind) == SelectSeq(steps, LAMBDA s : s.kind = kind)

----------------------------------------------------------------------------
(* Commands::Config                                                        *)

\* a slip: a default already stored is kept over the flag
OverlayStoredWins(stored, flag) == IF stored.some THEN stored ELSE flag

\* if let Some(x) = flag { cfg.field = Some(x) }
Overlay(stored, flag) == IF flag.some THEN flag ELSE stored

ConfigCmd(f, a, lio, stdin, sio) ==
    LET ld     == load_config(f, lio)
        \* .unwrap_or_default()
        cfg0   == IF ld.ok THEN ld.v ELSE DefaultConfig
        prompt == ~a.key.some /\ cfg0.api_key = <<>>
        rd     == read_password(stdin)
        s1     == IF prompt
                  THEN <<LoadStep(ld), PrintStep("Enter your resend API key"),
                         StdinStep(rd)>>
                  ELSE <<LoadStep(ld)>>
    IN
    IF prompt /\ ~rd.ok THEN Fail(s1, "failed to read api key", f)
    ELSE
        LET cfg1 == [cfg0 EXCEPT !.api_key =
                        IF a.key.some THEN a.key.v
                        ELSE IF prompt THEN rd.v ELSE @]
            cfg2 == [cfg1 EXCEPT !.default_from = Overlay(@, a.default_from)]
            cfg3 == [cfg2 EXCEPT !.default_to = Overlay(@, a.default_to)]
            sv   == save_config(f, cfg3, sio)
            s2   == Append(s1, SaveStep(cfg3, sv))
        IN
        IF ~sv.ok THEN Fail(s2, sv.e, sv.file)
        ELSE Done(Append(s2, PrintStep("Configuration saved.")), sv.file)

----------------------------------------------------------------------------
(* Helpers of the commands                                                 *)

\* the pieces of s between the commas
RECURSIVE SplitComma(_, _)
SplitComma(s, cur) ==
    IF s = <<>> THEN <<cur>>
    ELSE IF Head(s) = "," THEN <<cur>> \o SplitComma(Tail(s), <<>>)
    ELSE SplitComma(Tail(s), Append(cur, Head(s)))

RECURSIVE TrimAll(_)
TrimAll(ps) == IF ps = <<>> THEN <<>> ELSE <<Trim(Head(ps))>> \o TrimAll(Tail(ps))

\* parse_to_vec: split at commas, trim each piece, drop the empty ones
parse_to_vec(s) == SelectSeq(TrimAll(SplitComma(s, <<>>)), LAMBDA p : p # <<>>)

\* print_email_body: what is shown as the text body
print_email_body(text, html) ==
    IF text.some THEN text.v
    ELSE IF html.some THEN "<unavailable (HTML body only)>"
    ELSE "<empty>"

\* Iterator::take
Take(s, n) == SubSeq(s, 1, IF n < Len(s) THEN n ELSE Len(s))

\* the default of COUNT in list and received-list
DefaultLimit == 10

\* a slip: the last entry of the list is taken for the newest
ResolveEmailIdLast(op, noneMsg, listMsg, key, provided, listing) ==
    IF provided.some THEN [steps |-> <<>>, res |-> Ok(provided.v)]
    ELSE
        LET st == <<RemoteStep(op, key, "default", listing)>> IN
        IF ~listing.ok THEN [steps |-> st, res |-> Err(listMsg)]
        ELSE IF listing.v # <<>>
        THEN [steps |-> st, res |-> Ok(listing.v[Len(listing.v)])]
        ELSE [steps |-> st, res |-> Err(noneMsg)]

\* resolve_sent_email_id / resolve_received_email_id: the requests made and
\* the id found.  listing is the answer the service would give to a list
\* request.
ResolveEmailId(op, noneMsg, listMsg, key, provided, listing) ==
    IF provided.some THEN [steps |-> <<>>, res |-> Ok(provided.v)]
    ELSE
        LET st == <<RemoteStep(op, key, "default", listing)>> IN
        IF ~listing.ok THEN [steps |-> st, res |-> Err(listMsg)]
        ELSE IF listing.v # <<>> THEN [steps |-> st, res |-> Ok(Head(listing.v))]
        ELSE [steps |-> st, res |-> Err(noneMsg)]

resolve_sent_email_id(key, provided, listing) ==
    ResolveEmailId("emails.list", "No sent emails available to display.",
                   "list sent emails to find newest", key, provided, listing)

resolve_received_email_id(key, provided, listing) ==
    ResolveEmailId("receiving.list", "No received emails available to display.",
                   "list received emails to find newest", key, provided, listing)

\* CreateEmailBaseOptions::new(from, to, subject), then with_html / with_text
\* for the bodies that are there
EmailMessage(from, to, subject, html, text) ==
    [from |-> from, to |-> to, subject |-> subject, html |-> html, text |-> text]

FwdPrefix == <<"F", "w", "d", ":", SP>>

----------------------------------------------------------------------------
(* Commands::Send                                                          *)

\* a slip: the list is asked for the newest email although --id is given
ForwardBodyNewest(a, key, listing, fetched) ==
    LET r == resolve_received_email_id(key, None, listing) IN
    IF ~r.res.ok THEN [ok |-> FALSE, steps |-> r.steps, e |-> r.res.e]
    ELSE
        LET st == Append(r.steps, RemoteStep("receiving.get", key, r.res.v, fetched)) IN
        IF ~fetched.ok
        THEN [ok |-> FALSE, steps |-> st,
              e |-> "get received email for forwarding failed"]
        ELSE [ok |-> TRUE, steps |-> st,
              subject |-> IF a.subject.some THEN a.subject.v
                          ELSE FwdPrefix \o fetched.v.subject,
              html |-> fetched.v.html, text |-> fetched.v.text]

\* the subject and the bodies of a forwarded email (--id given)
ForwardBody(a, key, listing, fetched) ==
    LET r == resolve_received_email_id(key, Some(a.id.v), listing) IN
    IF ~r.res.ok THEN [ok |-> FALSE, steps |-> r.steps, e |-> r.res.e]
    ELSE
        LET st == Append(r.steps, RemoteStep("receiving.get", key, r.res.v, fetched)) IN
        IF ~fetched.ok
        THEN [ok |-> FALSE, steps |-> st,
              e |-> "get received email for forwarding failed"]
        ELSE [ok |-> TRUE, steps |-> st,
              subject |-> IF a.subject.some THEN a.subject.v
                          ELSE FwdPrefix \o fetched.v.subject,
              html |-> fetched.v.html, text |-> fetched.v.text]

\* a variant: one body only, --text giving way to --html and to stdin
ComposeBodyOneSource(a, stdin) ==
    LET rd == read_to_string_stdin(stdin) IN
    IF a.from_stdin /\ ~rd.ok
    THEN [ok |-> FALSE, steps |-> <<StdinStep(rd)>>, e |-> "stdin read"]
    ELSE [ok |-> TRUE,
          steps |-> IF a.from_stdin THEN <<StdinStep(rd)>> ELSE <<>>,
          subject |-> a.subject.v,
          html |-> IF a.from_stdin THEN Some(rd.v) ELSE a.html,
          text |-> IF a.from_stdin \/ a.html.some THEN None ELSE a.text]

\* the subject and the bodies of a composed email (no --id)
ComposeBody(a, stdin) ==
    LET rd == read_to_string_stdin(stdin) IN
    IF a.from_stdin /\ ~rd.ok
    THEN [ok |-> FALSE, steps |-> <<StdinStep(rd)>>, e |-> "stdin read"]
    ELSE [ok |-> TRUE,
          steps |-> IF a.from_stdin THEN <<StdinStep(rd)>> ELSE <<>>,
          subject |-> a.subject.v,
          html |-> IF a.from_stdin THEN Some(rd.v) ELSE a.html,
          text |-> a.text]

SendCmd(f, a, lio, stdin, listing, fetched, sent) ==
    LET ld == load_config(f, lio)
        s0 == <<LoadStep(ld)>>
    IN
    IF ~ld.ok THEN Fail(s0, ld.e, f)
    ELSE
        LET api_key   == ld.v.api_key
            from_addr == OptOr(a.from, ld.v.default_from)
            to_addr   == OptOr(a.to, ld.v.default_to)
        IN
        IF ~from_addr.some
        THEN Fail(s0, "From address not provided and no default set", f)
        ELSE IF ~to_addr.some
        THEN Fail(s0, "To address not provided and no default set", f)
        ELSE
            LET b == IF a.id.some THEN ForwardBody(a, api_key, listing, fetched)
                     ELSE ComposeBody(a, stdin)
                s1 == s0 \o b.steps
            IN
            IF ~b.ok THEN Fail(s1, b.e, f)
            ELSE
                LET email == EmailMessage(from_addr.v, parse_to_vec(to_addr.v),
                                          b.subject, b.html, b.text)
                    s2 == Append(s1, RemoteStep("emails.send", api_key, email, sent))
                IN
                IF ~sent.ok THEN Fail(s2, "send failed", f)
                ELSE Done(Append(s2, PrintStep("Send request submitted.")), f)

----------------------------------------------------------------------------
(* Commands::Batch                                                         *)

\* Deserialize for Vec<String>
RECURSIVE AsStrings(_)
AsStrings(a) ==
    IF a = <<>> THEN Ok(<<>>)
    ELSE
        LET h == AsString(Head(a))
            r == AsStrings(Tail(a))
        IN
        IF h.ok /\ r.ok THEN Ok(<<h.v>> \o r.v) ELSE Err("invalid type")

AsStringVec(j) == IF j.t = "arr" THEN AsStrings(j.a) ELSE Err("invalid type")

K_from    == <<"f", "r", "o", "m">>
K_to      == <<"t", "o">>
K_subject == <<"s", "u", "b", "j", "e", "c", "t">>
K_html    == <<"h", "t", "m", "l">>
K_text    == <<"t", "e", "x", "t">>

BatchEmailInput(from, to, subject, html, text) ==
    [from |-> from, to |-> to, subject |-> subject, html |-> html, text |-> text]

\* #[derive(Deserialize)] for BatchEmailInput, from a map: from, to and
\* subject must be there once, html and text at most once
BatchInputFromMap(m) ==
    LET fs == ValuesOf(m, K_from)
        ts == ValuesOf(m, K_to)
        ss == ValuesOf(m, K_subject)
        hs == ValuesOf(m, K_html)
        xs == ValuesOf(m, K_text)
        f  == IF Len(fs) = 1 THEN AsString(fs[1].v) ELSE Err("from")
        t  == IF Len(ts) = 1 THEN AsStringVec(ts[1].v) ELSE Err("to")
        s  == IF Len(ss) = 1 THEN AsString(ss[1].v) ELSE Err("subject")
        h  == IF Len(hs) = 0 THEN Ok(None)
              ELSE IF Len(hs) = 1 THEN AsOption(hs[1].v) ELSE Err("duplicate")
        x  == IF Len(xs) = 0 THEN Ok(None)
              ELSE IF Len(xs) = 1 THEN AsOption(xs[1].v) ELSE Err("duplicate")
    IN
    IF f.ok /\ t.ok /\ s.ok /\ h.ok /\ x.ok
    THEN Ok(BatchEmailInput(f.v, t.v, s.v, h.v, x.v))
    ELSE Err("json")

\* ... and from a sequence of exactly the five fields
BatchInputFromSeq(a) ==
    IF Len(a) # 5 THEN Err("json")
    ELSE
        LET f == AsString(a[1])
            t == AsStringVec(a[2])
            s == AsString(a[3])
            h == AsOption(a[4])
            x == AsOption(a[5])
        IN
        IF f.ok /\ t.ok /\ s.ok /\ h.ok /\ x.ok
        THEN Ok(BatchEmailInput(f.v, t.v, s.v, h.v, x.v))
        ELSE Err("json")

BatchInputFromValue(j) ==
    IF j.t = "obj" THEN BatchInputFromMap(j.m)
    ELSE IF j.t = "arr" THEN BatchInputFromSeq(j.a)
    ELSE Err("json")

\* a slip: an element that does not parse is left out
RECURSIVE BatchInputsFromSkipping(_)
BatchInputsFromSkipping(a) ==
    IF a = <<>> THEN Ok(<<>>)
    ELSE
        LET h == BatchInputFromValue(Head(a))
            r == BatchInputsFromSkipping(Tail(a))
        IN
        IF h.ok THEN Ok(<<h.v>> \o r.v) ELSE r

RECURSIVE BatchInputsFrom(_)
BatchInputsFrom(a) ==
    IF a = <<>> THEN Ok(<<>>)
    ELSE
        LET h == BatchInputFromValue(Head(a))
            r == BatchInputsFrom(Tail(a))
        IN
        IF h.ok /\ r.ok THEN Ok(<<h.v>> \o r.v) ELSE Err("json")

\* serde_json::from_str::<Vec<BatchEmailInput>>
from_str_Batch(s) ==
    LET r == ParseDocument(s) IN
    IF r.ok /\ r.v.t = "arr" THEN BatchInputsFrom(r.v.a) ELSE Err("json")

\* batch.into_iter().map(...).collect()
RECURSIVE BatchEmails(_)
BatchEmails(b) ==
    IF b = <<>> THEN <<>>
    ELSE <<EmailMessage(Head(b).from, Head(b).to, Head(b).subject,
                        Head(b).html, Head(b).text)>> \o BatchEmails(Tail(b))

\* bf is the file named on the command line: whether it can be read, and
\* its text
BatchCmd(f, bf, lio, sent) ==
    LET ld == load_config(f, lio)
        s0 == <<LoadStep(ld)>>
    IN
    IF ~ld.ok THEN Fail(s0, ld.e, f)
    ELSE
        LET s1 == Append(s0, ReadFileStep(bf.readable)) IN
        IF ~bf.readable THEN Fail(s1, "read batch file", f)
        ELSE
            LET batch == from_str_Batch(bf.content)
                s2    == Append(s1, ParseStep(batch.ok))
            IN
            IF ~batch.ok THEN Fail(s2, "parse json", f)
            ELSE
                LET s3 == Append(s2, RemoteStep("batch.send", ld.v.api_key,
                                                BatchEmails(batch.v), sent))
                IN
                IF ~sent.ok THEN Fail(s3, "batch send failed", f)
                ELSE Done(Append(s3, PrintStep("Batch send request submitted.")), f)

----------------------------------------------------------------------------
(* Commands::List, Get, Update, Cancel, ReceivedList, ReceivedGet,         *)
(* Completions                                                             *)

\* list and received-list: one default list request, then the first
\* `limit` entries are printed
ListingCmd(op, failMsg, f, count, lio, listing) ==
    LET ld == load_config(f, lio)
        s0 == <<LoadStep(ld)>>
    IN
    IF ~ld.ok THEN Fail(s0, ld.e, f)
    ELSE
        LET limit == IF count.some THEN count.v ELSE DefaultLimit
            s1    == Append(s0, RemoteStep(op, ld.v.api_key, "default", listing))
        IN
        IF ~listing.ok THEN Fail(s1, failMsg, f)
        ELSE Done(Append(s1, PrintStep(Take(listing.v, limit))), f)

ListCmd(f, count, lio, listing) ==
    ListingCmd("emails.list", "list failed", f, count, lio, listing)

ReceivedListCmd(f, count, lio, listing) ==
    ListingCmd("receiving.list", "list receiving failed", f, count, lio, listing)

\* what get and received-get print of the email fetched
Shown(e) == [id |-> e.id, subject |-> e.subject,
             body |-> print_email_body(e.text, e.html)]

GetCmd(f, id, lio, listing, fetched) ==
    LET ld == load_config(f, lio)
        s0 == <<LoadStep(ld)>>
    IN
    IF ~ld.ok THEN Fail(s0, ld.e, f)
    ELSE
        LET r  == resolve_sent_email_id(ld.v.api_key, id, listing)
            s1 == s0 \o r.steps
        IN
        IF ~r.res.ok THEN Fail(s1, r.res.e, f)
        ELSE
            LET s2 == Append(s1, RemoteStep("emails.get", ld.v.api_key,
                                            r.res.v, fetched))
            IN
            IF ~fetched.ok THEN Fail(s2, "get failed", f)
            ELSE Done(Append(s2, PrintStep(Shown(fetched.v))), f)

ReceivedGetCmd(f, id, lio, listing, fetched) ==
    LET ld == load_config(f, lio)
        s0 == <<LoadStep(ld)>>
    IN
    IF ~ld.ok THEN Fail(s0, ld.e, f)
    ELSE
        LET r  == resolve_received_email_id(ld.v.api_key, id, listing)
            s1 == s0 \o r.steps
        IN
        IF ~r.res.ok THEN Fail(s1, r.res.e, f)
        ELSE
            LET s2 == Append(s1, RemoteStep("receiving.get", ld.v.api_key,
                                            r.res.v, fetched))
            IN
            IF ~fetched.ok THEN Fail(s2, "get receiving failed", f)
            ELSE Done(Append(s2, PrintStep(Shown(fetched.v))), f)

\* update and cancel: one request on the email named
UpdateCmd(f, a, lio, resp) ==
    LET ld == load_config(f, lio)
        s0 == <<LoadStep(ld)>>
    IN
    IF ~ld.ok THEN Fail(s0, ld.e, f)
    ELSE
        LET s1 == Append(s0, RemoteStep("emails.update", ld.v.api_key,
                                        [id |-> a.id, scheduled_at |-> a.scheduled_at],
                                        resp))
        IN
        IF ~resp.ok THEN Fail(s1, "update failed", f)
        ELSE Done(Append(s1, PrintStep("Updated email")), f)

CancelCmd(f, id, lio, resp) ==
    LET ld == load_config(f, lio)
        s0 == <<LoadStep(ld)>>
    IN
    IF ~ld.ok THEN Fail(s0, ld.e, f)
    ELSE
        LET s1 == Append(s0, RemoteStep("emails.cancel", ld.v.api_key, id, resp)) IN
        IF ~resp.ok THEN Fail(s1, "cancel failed", f)
        ELSE Done(Append(s1, PrintStep("Canceled")), f)

\* completions: the script goes to standard output; no config, no request
CompletionsCmd(f, shell) == Done(<<PrintStep(shell)>>, f)

----------------------------------------------------------------------------
(* Inputs: command lines, standard input, files, answers of the service    *)

\* longest list the service answers with
MaxList == 2
\* most elements of a batch file
MaxBatch == 3
\* largest COUNT given to list and received-list
MaxCount == 2

Opt(S) == {None} \cup {Some(x) : x \in S}

\* all strings over alphabet of length at most n
Strings(alphabet, n) == UNION {[1..k -> alphabet] : k \in 0..n}

\* config [--key] [--default-from] [--default-to]
ConfigArgs ==
    [key : Opt({<<"k">>}),
     default_from : Opt({<<"d">>}),
     default_to : Opt({<<"e", ",", SP, "g">>})]

\* send: clap lets --html, --text and --from-stdin stand only without --id,
\* and asks for --subject unless --id is given
SendArgs ==
    {a \in [from : Opt({<<"a">>}),
            to : Opt({<<"b", ",", "c">>}),
            subject : Opt({<<"s">>}),
            html : Opt({<<"h">>}),
            text : Opt({<<"x">>}),
            from_stdin : BOOLEAN,
            id : Opt({"em_1"})] :
        /\ a.id.some => ~a.html.some /\ ~a.text.some /\ ~a.from_stdin
        /\ ~a.id.some => a.subject.some}

\* standard input: unreadable, empty, or two lines
StdinInputs == {Err("stdin"), Ok(<<>>), Ok(<<SP, "p", NL, "q">>)}

Ids == {"em_1", "em_2"}

\* answers to a list request: a failure, or the ids in the order returned
ListResponses ==
    {Err("remote")} \cup {Ok(l) : l \in Strings(Ids, MaxList)}

\* answers to a get request: a failure, or the email
Emails ==
    [id : Ids, subject : {<<"H", "i">>},
     html : Opt({<<"<", "p", ">">>}), text : Opt({<<"y">>})]

GetResponses == {Err("remote")} \cup {Ok(e) : e \in Emails}

\* answers to send, batch send, update and cancel
AckResponses == {Err("remote"), Ok("id")}

\* An answer is drawn only where the command line lets the question be
\* asked (standard input under --from-stdin, the received emails under
\* --id); elsewhere it is Unasked, which reads as a failure.
Unasked == Err("not asked")

\* the text of one element of a batch file; missing fields are left out
Member(k, val) == JsonString(k) \o <<":">> \o val

RECURSIVE Joined(_)
Joined(parts) ==
    IF parts = <<>> THEN <<>>
    ELSE IF Len(parts) = 1 THEN Head(parts)
    ELSE Head(parts) \o <<",">> \o Joined(Tail(parts))

ElementA ==
    <<"{">> \o Joined(<<Member(K_from, JsonString(<<"a">>)),
                        Member(K_to, <<"[">> \o JsonString(<<"b">>) \o <<"]">>),
                        Member(K_subject, JsonString(<<"s">>)),
                        Member(K_html, JsonString(<<"h">>))>>) \o <<"}">>

ElementB ==
    <<"{">> \o Joined(<<Member(K_subject, JsonString(<<"t">>)),
                        Member(K_to, <<"[">> \o JsonString(<<"c">>) \o <<",", SP>>
                                     \o JsonString(<<"d">>) \o <<"]">>),
                        Member(K_from, JsonString(<<"b">>)),
                        Member(K_text, L_null)>>) \o <<"}">>

\* the required subject is missing
ElementNoSubject ==
    <<"{">> \o Joined(<<Member(K_from, JsonString(<<"a">>)),
                        Member(K_to, <<"[">> \o JsonString(<<"b">>) \o <<"]">>)>>)
            \o <<"}">>

BatchElements == {ElementA, ElementB, ElementNoSubject}

\* the batch files: arrays of at most MaxBatch elements, a text that is no
\* array, a text that is no JSON, and a file that cannot be read.  elems
\* and array record how the text was made; the program reads only readable
\* and content.
BatchFiles ==
    {[readable |-> TRUE, content |-> <<"[">> \o Joined(es) \o <<"]", NL>>,
      array |-> TRUE, elems |-> es] : es \in Strings(BatchElements, MaxBatch)}
    \cup {[readable |-> TRUE, content |-> ElementA,
           array |-> FALSE, elems |-> <<ElementA>>],
          [readable |-> TRUE, content |-> <<"[">> \o ElementA,
           array |-> FALSE, elems |-> <<ElementA>>],
          [readable |-> FALSE, content |-> <<>>, array |-> FALSE, elems |-> <<>>]}

Counts == Opt(1..MaxCount)

\* the credentials files the program may find when first run: none, a
\* legacy file holding the bare key, a file written by an earlier config
InitFiles ==
    {Absent,
     Present(<<SP, "r", "e", "_", NL>>),
     Present(to_string_pretty(AppConfig(<<"j">>, Some(<<"f">>), Some(<<"t">>))))}

----------------------------------------------------------------------------
(* The program, one invocation after another                               *)

\* no invocation is running or waiting to be looked at: the shell prompt
AtPrompt == [cmd |-> "none", args |-> <<>>, steps |-> <<>>,
             exit |-> "none", err |-> ""]

\* the program is started at the prompt and runs to its exit
Ran(cmd, args, r) ==
    /\ inv = AtPrompt
    /\ file' = r.file
    /\ inv' = [cmd |-> cmd, args |-> args, steps |-> r.steps,
               exit |-> r.exit, err |-> r.err]

Init ==
    /\ file \in InitFiles
    /\ inv = AtPrompt

\* the process is gone; the shell is back at its prompt
Prompt ==
    /\ inv # AtPrompt
    /\ inv' = AtPrompt
    /\ UNCHANGED file

\* what the file system answers to the load and to the save of one config
\* command: all is well; there is no config directory; the file cannot be
\* read (say it is not UTF-8) and can or cannot be written; the file can be
\* read and the write fails
ConfigIo ==
    {<<"ok", "ok">>, <<"no_dir", "no_dir">>, <<"unreadable", "ok">>,
     <<"unreadable", "denied">>, <<"ok", "denied">>, <<"ok", "truncated">>}

Config ==
    \E a \in ConfigArgs, io \in ConfigIo, stdin \in StdinInputs :
        Ran("config", a, ConfigCmd(file, a, io[1], stdin, io[2]))

Send ==
    \E a \in SendArgs, lio \in LoadIo, sent \in AckResponses :
        \E stdin \in (IF a.from_stdin THEN StdinInputs ELSE {Unasked}),
           listing \in (IF a.id.some THEN ListResponses ELSE {Unasked}),
           fetched \in (IF a.id.some THEN GetResponses ELSE {Unasked}) :
            Ran("send", a, SendCmd(file, a, lio, stdin, listing, fetched, sent))

Batch ==
    \E bf \in BatchFiles, lio \in LoadIo, sent \in AckResponses :
        Ran("batch", bf, BatchCmd(file, bf, lio, sent))

List ==
    \E count \in Counts, lio \in LoadIo, listing \in ListResponses :
        Ran("list", count, ListCmd(file, count, lio, listing))

Get ==
    \E id \in Opt(Ids), lio \in LoadIo, listing \in ListResponses,
       fetched \in GetResponses :
        Ran("get", id, GetCmd(file, id, lio, listing, fetched))

Update ==
    \E a \in [id : Ids, scheduled_at : Opt({<<"n", "o", "w">>})],
       lio \in LoadIo, resp \in AckResponses :
        Ran("update", a, UpdateCmd(file, a, lio, resp))

Cancel ==
    \E id \in Ids, lio \in LoadIo, resp \in AckResponses :
        Ran("cancel", id, CancelCmd(file, id, lio, resp))

ReceivedList ==
    \E count \in Counts, lio \in LoadIo, listing \in ListResponses :
        Ran("received-list", count, ReceivedListCmd(file, count, lio, listing))

ReceivedGet ==
    \E id \in Opt(Ids), lio \in LoadIo, listing \in ListResponses,
       fetched \in GetResponses :
        Ran("received-get", id, ReceivedGetCmd(file, id, lio, listing, fetched))

Completions ==
    \E shell \in {"bash", "zsh"} :
        Ran("completions", shell, CompletionsCmd(file, shell))

Next ==
    \/ Config
    \/ Send
    \/ Batch
    \/ List
    \/ Get
    \/ Update
    \/ Cancel
    \/ ReceivedList
    \/ ReceivedGet
    \/ Completions
    \/ Prompt

Spec == Init /\ [][Next]_vars

----------------------------------------------------------------------------
(* The config store on its own: save_config and load_config applied to     *)
(* configs and to credentials files drawn from bounded sets                *)

\* longest api_key saved
MaxKeyLen == 2
\* longest hand-written credentials file
MaxRawLen == 3

KeyAlphabet == {"k", QUOTE, BSL, NL, SP}
RawAlphabet == {"r", "{", NL, SP}

\* the configs saved
Configs ==
    {AppConfig(k, f, t) : k \in Strings(KeyAlphabet, MaxKeyLen),
                          f \in Opt({<<"a", QUOTE>>}),
                          t \in Opt({<<NL, "b", ",">>})}

CompactK == <<"{">> \o Member(K_api_key, JsonString(<<"k">>)) \o <<"}">>

\* credentials files the program did not write in this form: short texts,
\* and JSON texts that are compact, padded, cut short, followed by more
\* text, without the key, with an unknown field, or no object
RawFiles ==
    {Absent}
    \cup {Present(t) : t \in Strings(RawAlphabet, MaxRawLen)}
    \cup {Present(CompactK),
          Present(<<NL, SP>> \o CompactK \o <<SP, NL>>),
          Present(SubSeq(CompactK, 1, Len(CompactK) - 1)),
          Present(CompactK \o <<"r">>),
          Present(<<"{">> \o Member(K_default_to, JsonString(<<"t">>)) \o <<"}">>),
          Present(<<"{">> \o Joined(<<Member(K_api_key, JsonString(<<"k">>)),
                                      Member(<<"x">>, <<"[", "]">>)>>) \o <<"}">>),
          Present(<<"[">> \o Joined(<<JsonString(<<"k">>), L_null,
                                      JsonString(<<"t">>)>>) \o <<"]">>),
          Present(JsonString(<<"k">>)),
          Present(<<SP>> \o L_null \o <<NL>>)}

\* of the steps so far, the last two
LastTwo(s) == IF Len(s) <= 2 THEN s ELSE SubSeq(s, Len(s) - 1, Len(s))

StoreInit ==
    /\ \/ file \in RawFiles /\ inv = [AtPrompt EXCEPT !.args = DefaultConfig]
       \/ file = Absent /\ inv \in {[AtPrompt EXCEPT !.args = c] : c \in Configs}

\* save_config(&cfg), cfg the config drawn at the start
StoreSave ==
    \E sio \in SaveIo :
        LET sv == save_config(file, inv.args, sio) IN
        /\ file' = sv.file
        /\ inv' = [cmd |-> "save_config", args |-> inv.args,
                   steps |-> LastTwo(Append(inv.steps, SaveStep(inv.args, sv))),
                   exit |-> IF sv.ok THEN "ok" ELSE "fail", err |-> sv.e]

\* load_config()
StoreLoad ==
    \E lio \in LoadIo :
        LET ld == load_config(file, lio) IN
        /\ inv' = [cmd |-> "load_config", args |-> inv.args,
                   steps |-> LastTwo(Append(inv.steps, LoadStep(ld))),
                   exit |-> IF ld.ok THEN "ok" ELSE "fail",
                   err |-> IF ld.ok THEN "" ELSE ld.e]
        /\ UNCHANGED file

StoreNext ==
    \/ StoreSave
    \/ StoreLoad

SpecStore == StoreInit /\ [][StoreNext]_vars

----------------------------------------------------------------------------
(* Properties                                                              *)

\* the requests the invocation sent to the remote service, in order
Requests == StepsOf(inv.steps, "remote")
RequestsTo(op) == SelectSeq(Requests, LAMBDA s : s.op = op)
Saves == StepsOf(inv.steps, "save_config")
StdinReads == StepsOf(inv.steps, "stdin")

\* the invocation began by loading the config; LoadedCfg is what it got
Loaded    == inv.steps # <<>> /\ inv.steps[1].kind = "load_config"
LoadedOk  == Loaded /\ inv.steps[1].ok
LoadedCfg == inv.steps[1].res.v

KeyCommands == {"send", "batch", "list", "get", "update", "cancel",
                "received-list", "received-get"}

\* C1: for every command other than config and completions, a loaded
\* config with an empty api_key ends the command in failure before any
\* request is sent to the remote service.
C1_NoKeyNoRequest ==
    (inv.cmd \in KeyCommands /\ LoadedOk /\ LoadedCfg.api_key = <<>>)
        => (inv.exit = "fail" /\ Requests = <<>>)

\* C2: in every command a failed step (config loading, file reading, JSON
\* parsing, standard input, a remote request, the save) is the last step
\* and the command exits non-zero; so after a failed load_config the config
\* command saves nothing and prints no success message.
C2_FailureAborts ==
    \A i \in 1..Len(inv.steps) :
        ~inv.steps[i].ok => (i = Len(inv.steps) /\ inv.exit = "fail")


\* the config the config command merges into: what load_config returned,
\* or the default config when it failed
Stored == IF LoadedOk THEN LoadedCfg ELSE DefaultConfig

\* C5, as claimed: the config command saves the stored config with every
\* field for which a flag is given replaced by the flag and every other
\* field kept; the prompt is read exactly when no --key is given and the
\* stored api_key is empty; one save follows.
C5_FlagsOverStored ==
    (inv.cmd = "config" /\ LoadedOk) =>
        /\ (StdinReads # <<>>) <=>
                (~inv.args.key.some /\ LoadedCfg.api_key = <<>>)
        /\ Len(Saves) = 1
        /\ Saves[1].cfg =
                AppConfig(IF inv.args.key.some THEN inv.args.key.v
                          ELSE LoadedCfg.api_key,
                          IF inv.args.default_from.some THEN inv.args.default_from
                          ELSE LoadedCfg.default_from,
                          IF inv.args.default_to.some THEN inv.args.default_to
                          ELSE LoadedCfg.default_to)

\* C5, amended: the config command merges into the stored config (the
\* default config when load_config fails).  The prompt is read exactly
\* when no --key is given and the stored api_key is empty.  When reading
\* the prompt fails nothing is saved; otherwise exactly one save is
\* attempted, after the load and the prompt, of the config whose api_key is
\* the --key value if given, else the trimmed line read at the prompt if it
\* was read, else the stored api_key, and whose default_from and default_to
\* are the flag values where given and the stored values elsewhere.
C5_ConfigMerge ==
    inv.cmd = "config" =>
        LET prompted == StdinReads # <<>> IN
        /\ Loaded
        /\ prompted <=> (~inv.args.key.some /\ Stored.api_key = <<>>)
        /\ Len(StdinReads) <= 1
        /\ IF prompted /\ ~StdinReads[1].ok
           THEN Saves = <<>> /\ inv.exit = "fail"
           ELSE /\ Len(Saves) = 1
                /\ \A i, j \in 1..Len(inv.steps) :
                      (inv.steps[i].kind = "save_config"
                       /\ inv.steps[j].kind \in {"load_config", "stdin"}) => j < i
                /\ Saves[1].cfg =
                      AppConfig(IF inv.args.key.some THEN inv.args.key.v
                                ELSE IF prompted THEN StdinReads[1].res.v
                                ELSE Stored.api_key,
                                IF inv.args.default_from.some
                                THEN inv.args.default_from
                                ELSE Stored.default_from,
                                IF inv.args.default_to.some
                                THEN inv.args.default_to
                                ELSE Stored.default_to)

\* C5's case: a default is stored, --default-from is given, --default-to
\* is not, and the key is read at the prompt
C5_Witness ==
    /\ inv.cmd = "config" /\ LoadedOk /\ inv.exit = "ok"
    /\ inv.args.default_from.some /\ ~inv.args.default_to.some
    /\ StdinReads # <<>>
    /\ Len(Saves) = 1
    /\ Saves[1].cfg.api_key = <<"p">>
    /\ Saves[1].cfg.default_to.some


\* the address send resolves for one header: the flag, else the default
Resolved(flag, default) == IF flag.some THEN flag.v ELSE default.v

\* C6: in send, from and to are each the flag value when the flag is given
\* and the config default otherwise; when for either of them there is
\* neither, the command fails and sends no request at all.
C6_SendAddresses ==
    (inv.cmd = "send" /\ LoadedOk) =>
        LET a        == inv.args
            numbFrom == ~a.from.some /\ ~LoadedCfg.default_from.some
            numbTo   == ~a.to.some /\ ~LoadedCfg.default_to.some
        IN
        IF numbFrom \/ numbTo
        THEN inv.exit = "fail" /\ Requests = <<>>
        ELSE \A i \in 1..Len(RequestsTo("emails.send")) :
                LET m == RequestsTo("emails.send")[i].arg IN
                /\ m.from = Resolved(a.from, LoadedCfg.default_from)
                /\ m.to = parse_to_vec(Resolved(a.to, LoadedCfg.default_to))

\* C6's case: --from is given over a stored default, --to is not given,
\* and the message is sent
C6_Witness ==
    /\ inv.cmd = "send" /\ LoadedOk
    /\ inv.args.from.some /\ LoadedCfg.default_from.some
    /\ inv.args.from.v # LoadedCfg.default_from.v
    /\ ~inv.args.to.some /\ LoadedCfg.default_to.some
    /\ RequestsTo("emails.send") # <<>>

\* what standard input held, when the invocation read it
StdinText == StdinReads[1].res.v

\* C7, as claimed: send without --id submits one body, from the first of
\* these that is there: standard input under --from-stdin, --html, --text.
C7_OneBodySource ==
    (inv.cmd = "send" /\ ~inv.args.id.some) =>
        \A i \in 1..Len(RequestsTo("emails.send")) :
            LET m == RequestsTo("emails.send")[i].arg
                a == inv.args
            IN
            IF a.from_stdin THEN m.html = Some(StdinText) /\ m.text = None
            ELSE IF a.html.some THEN m.html = a.html /\ m.text = None
            ELSE m.html = None /\ m.text = a.text

\* C7, amended: send without --id submits as html all of standard input
\* under --from-stdin and the --html value otherwise, and submits as text
\* the --text value whenever it is given, whatever the html is.
C7_HtmlAndText ==
    (inv.cmd = "send" /\ ~inv.args.id.some) =>
        /\ (StdinReads # <<>>) => inv.args.from_stdin
        /\ \A i \in 1..Len(RequestsTo("emails.send")) :
            LET m == RequestsTo("emails.send")[i].arg
                a == inv.args
            IN
            /\ m.html = IF a.from_stdin THEN Some(StdinText) ELSE a.html
            /\ m.text = a.text

\* C7's case: --html and --text are both given and the message is sent
C7_Witness ==
    /\ inv.cmd = "send" /\ ~inv.args.id.some /\ ~inv.args.from_stdin
    /\ inv.args.html.some /\ inv.args.text.some
    /\ RequestsTo("emails.send") # <<>>
    /\ RequestsTo("emails.send")[1].arg.text = inv.args.text
    /\ RequestsTo("emails.send")[1].arg.html = inv.args.html

\* C8: send with --id sends no list request; its first request fetches the
\* received email of that id; if the fetch fails there is no other request;
\* if it succeeds the one request after it is the send, whose html and text
\* are the fetched email's and whose subject is --subject when given and
\* "Fwd: " followed by the fetched subject otherwise.
C8_Forward ==
    (inv.cmd = "send" /\ inv.args.id.some) =>
        /\ RequestsTo("receiving.list") = <<>>
        /\ RequestsTo("emails.list") = <<>>
        /\ Requests # <<>> =>
             /\ Requests[1].op = "receiving.get"
             /\ Requests[1].arg = inv.args.id.v
             /\ IF ~Requests[1].ok THEN Len(Requests) = 1 /\ inv.exit = "fail"
                ELSE /\ Len(Requests) = 2
                     /\ Requests[2].op = "emails.send"
                     /\ Requests[2].arg.html = Requests[1].resp.v.html
                     /\ Requests[2].arg.text = Requests[1].resp.v.text
                     /\ Requests[2].arg.subject =
                            IF inv.args.subject.some THEN inv.args.subject.v
                            ELSE <<"F", "w", "d", ":", " ">>
                                     \o Requests[1].resp.v.subject

\* C8's case: an email with both bodies is forwarded without --subject
C8_Witness ==
    /\ inv.cmd = "send" /\ inv.args.id.some /\ ~inv.args.subject.some
    /\ Len(Requests) = 2
    /\ Requests[1].resp.v.html.some /\ Requests[1].resp.v.text.some
    /\ Requests[2].arg.subject = <<"F", "w", "d", ":", " ", "H", "i">>


\* the list and the get operation of get and of received-get
ListOp == IF inv.cmd = "get" THEN "emails.list" ELSE "receiving.list"
GetOp  == IF inv.cmd = "get" THEN "emails.get" ELSE "receiving.get"

\* C9: get and received-get, once the config is loaded: with an id, the
\* only request is the get of that id; without one, the first request is
\* the one list request, after which the first id of the answer, in the
\* order answered, is fetched; when the answer is empty the command fails
\* with the "No ... emails available" error and fetches nothing.
C9_ResolveNewest ==
    (inv.cmd \in {"get", "received-get"} /\ LoadedOk) =>
        IF inv.args.some
        THEN /\ Len(Requests) = 1
             /\ Requests[1].op = GetOp
             /\ Requests[1].arg = inv.args.v
        ELSE /\ Len(RequestsTo(ListOp)) = 1
             /\ Requests[1].op = ListOp
             /\ IF Requests[1].ok /\ Requests[1].resp.v # <<>>
                THEN /\ Len(Requests) = 2
                     /\ Requests[2].op = GetOp
                     /\ Requests[2].arg = Requests[1].resp.v[1]
                ELSE /\ Len(Requests) = 1
                     /\ inv.exit = "fail"
                     /\ Requests[1].ok =>
                            inv.err \in {"No sent emails available to display.",
                                         "No received emails available to display."}

\* C9's case: no id is given, the list answers two ids, the first of them
\* is fetched
C9_Witness ==
    /\ inv.cmd = "get" /\ ~inv.args.some
    /\ Len(Requests) = 2
    /\ Requests[1].resp.v = <<"em_2", "em_1">>
    /\ Requests[2].arg = "em_2"
    /\ inv.exit = "ok"

\* the message a well-formed element of a batch file stands for
MessageOf(e) ==
    IF e = ElementA
    THEN [from |-> <<"a">>, to |-> <<<<"b">>>>, subject |-> <<"s">>,
          html |-> Some(<<"h">>), text |-> None]
    ELSE [from |-> <<"b">>, to |-> <<<<"c">>, <<"d">>>>, subject |-> <<"t">>,
          html |-> None, text |-> None]

\* the batch file is a JSON array all of whose elements are well formed
WellFormed(bf) ==
    bf.readable /\ bf.array
        /\ \A i \in 1..Len(bf.elems) : bf.elems[i] \in {ElementA, ElementB}

\* C10: batch, once the config is loaded: when the file cannot be read or
\* is no array of well-formed elements, the command fails and sends no
\* request; otherwise it sends exactly one request, a batch send, with one
\* message for each element, in the order of the file.
C10_BatchAtomic ==
    (inv.cmd = "batch" /\ LoadedOk) =>
        IF ~WellFormed(inv.args)
        THEN inv.exit = "fail" /\ Requests = <<>>
        ELSE /\ Len(Requests) = 1
             /\ Requests[1].op = "batch.send"
             /\ Len(Requests[1].arg) = Len(inv.args.elems)
             /\ \A i \in 1..Len(inv.args.elems) :
                    Requests[1].arg[i] = MessageOf(inv.args.elems[i])

\* C10's case: two different well-formed elements, sent in file order
C10_Witness ==
    /\ inv.cmd = "batch" /\ LoadedOk
    /\ inv.args.array /\ inv.args.elems = <<ElementB, ElementA>>
    /\ Len(Requests) = 1
    /\ Requests[1].arg = <<MessageOf(ElementB), MessageOf(ElementA)>>
    /\ inv.exit = "ok"

----------------------------------------------------------------------------
(* Properties of the config store (SpecStore)                              *)

\* the load that ended the last two steps, and the save before it
LastStep == inv.steps[Len(inv.steps)]
SaveThenLoad ==
    /\ Len(inv.steps) = 2
    /\ inv.steps[1].kind = "save_config" /\ inv.steps[1].ok
    /\ inv.steps[2].kind = "load_config"

IoErrors == {"create config dir", "read config file"}

\* C3: a config saved by save_config and then loaded by load_config comes
\* back equal, field by field (the file system letting the file be read).
C3_RoundTrip ==
    SaveThenLoad =>
        /\ inv.steps[2].ok \/ inv.steps[2].res.e \in IoErrors
        /\ inv.steps[2].ok =>
              /\ inv.steps[2].res.v.api_key = inv.steps[1].cfg.api_key
              /\ inv.steps[2].res.v.default_from = inv.steps[1].cfg.default_from
              /\ inv.steps[2].res.v.default_to = inv.steps[1].cfg.default_to

\* C3's case: a config whose key holds a quote and a backslash, with one
\* default there and one not, is saved and loaded back
C3_Witness ==
    /\ SaveThenLoad /\ inv.steps[2].ok
    /\ inv.steps[1].cfg.api_key = <<QUOTE, BSL>>
    /\ inv.steps[1].cfg.default_from.some
    /\ ~inv.steps[1].cfg.default_to.some
    /\ inv.steps[2].res.v = inv.steps[1].cfg

\* C4: load_config fails only when the file system does.  No file: the
\* default config.  Else, with t the trimmed content: t is the JSON of an
\* AppConfig: that config; else t is not empty: the config whose api_key is
\* all of t, without defaults; else: the default config.
C4_LoadClassifies ==
    (inv.steps # <<>> /\ LastStep.kind = "load_config") =>
        LET res  == LastStep.res
            t    == Trim(file.content)
            json == from_str_AppConfig(t)
        IN
        /\ res.ok \/ res.e \in IoErrors
        /\ (~res.ok /\ res.e = "read config file") => file.exists
        /\ res.ok =>
              IF ~file.exists THEN res.v = DefaultConfig
              ELSE IF json.ok THEN res.v = json.v
              ELSE IF t # <<>>
                   THEN /\ res.v.api_key = t
                        /\ res.v.default_from = None
                        /\ res.v.default_to = None
              ELSE res.v = DefaultConfig

\* C4's case: a legacy file, the bare key between white space, loads as
\* that key alone
C4_Witness ==
    /\ inv.steps # <<>> /\ LastStep.kind = "load_config" /\ LastStep.ok
    /\ file = Present(<<SP, "r", NL>>)
    /\ LastStep.res.v = AppConfig(<<"r">>, None, None)

====
